---- MODULE Spec2Model ----
(***************************************************************************)
(* Model of peer/chaincode/install.go: the client-side workflow that       *)
(* resolves a chaincode package, builds and signs an install proposal,     *)
(* submits it to the first endorser client and interprets the response.    *)
(*                                                                         *)
(* Strings and byte slices are sequences of bytes (0..255); error values   *)
(* are records [kind, msg, vals]: msg is the format text of the error at   *)
(* its return site, vals the values formatted into it, kind the error      *)
(* kind of the design document that the return site corresponds to.        *)
(***************************************************************************)
EXTENDS Integers, Sequences, FiniteSets, TLC

(***************************************************************************)
(* Bounds of the model.                                                    *)
(***************************************************************************)
\* Longest result payload an endorser returns in the model.
MaxPayloadLen == 3
\* Most endorser clients an Installer is configured with.
MaxClients == 2

(***************************************************************************)
(* Byte strings used as inputs.                                            *)
(***************************************************************************)
Empty == <<>>
\* "mycc", "othercc", "1.0", "2.0", "src", "pkg.bin"
mycc == <<109, 121, 99, 99>>
othercc == <<111, 116, 104, 101, 114, 99, 99>>
v10 == <<49, 46, 48>>
v20 == <<50, 46, 48>>
srcPath == <<115, 114, 99>>
pkgBin == <<112, 107, 103, 46, 98, 105, 110>>
\* a name that is not valid UTF-8
badName == <<255>>
\* "InstallChaincode", the function name put first in the argument list
InstallChaincodeFn == <<73, 110, 115, 116, 97, 108, 108, 67, 104, 97, 105, 110, 99, 111, 100, 101>>
\* newLifecycleName, "_lifecycle"
newLifecycleName == <<95, 108, 105, 102, 101, 99, 121, 99, 108, 101>>

(***************************************************************************)
(* Protocol buffer wire format (proto.Marshal / proto.Unmarshal).         *)
(***************************************************************************)
RECURSIVE Varint(_)
Varint(n) ==
    IF n < 128 THEN <<n>> ELSE <<128 + (n % 128)>> \o Varint(n \div 128)

\* A length-delimited field (wire type 2) with the given field number.
LenField(num, bytes) == Varint(num * 8 + 2) \o Varint(Len(bytes)) \o bytes

\* proto3 leaves out a string or bytes field that holds the zero value.
OptField(num, bytes) == IF Len(bytes) = 0 THEN <<>> ELSE LenField(num, bytes)

\* Reads a varint at position pos of b: [ok, val, next].
RECURSIVE ReadVarint(_, _, _, _)
ReadVarint(b, pos, shift, acc) ==
    IF pos > Len(b) \/ shift > 9
    THEN [ok |-> FALSE, val |-> 0, next |-> pos]
    ELSE IF b[pos] < 128
         THEN [ok |-> TRUE, val |-> acc + b[pos] * (128 ^ shift), next |-> pos + 1]
         ELSE ReadVarint(b, pos + 1, shift + 1, acc + (b[pos] - 128) * (128 ^ shift))

SubBytes(b, from, n) == [k \in 1..n |-> b[from + k - 1]]

\* Splits b into its fields: [ok, fields], each field [num, wt, val], val
\* being the bytes of a length-delimited field and <<>> for the others.
RECURSIVE ParseFields(_, _, _)
ParseFields(b, pos, acc) ==
    IF pos > Len(b)
    THEN [ok |-> TRUE, fields |-> acc]
    ELSE LET t == ReadVarint(b, pos, 0, 0)
             num == t.val \div 8
             wt == t.val % 8
         IN  IF ~t.ok \/ num = 0
             THEN [ok |-> FALSE, fields |-> <<>>]
             ELSE CASE wt = 0 ->
                       LET v == ReadVarint(b, t.next, 0, 0)
                       IN  IF ~v.ok
                           THEN [ok |-> FALSE, fields |-> <<>>]
                           ELSE ParseFields(b, v.next,
                                    Append(acc, [num |-> num, wt |-> 0, val |-> <<>>]))
                    [] wt = 1 ->
                       IF t.next + 8 > Len(b) + 1
                       THEN [ok |-> FALSE, fields |-> <<>>]
                       ELSE ParseFields(b, t.next + 8,
                                Append(acc, [num |-> num, wt |-> 1, val |-> <<>>]))
                    [] wt = 2 ->
                       LET l == ReadVarint(b, t.next, 0, 0)
                       IN  IF ~l.ok \/ l.next + l.val > Len(b) + 1
                           THEN [ok |-> FALSE, fields |-> <<>>]
                           ELSE ParseFields(b, l.next + l.val,
                                    Append(acc, [num |-> num, wt |-> 2,
                                                 val |-> SubBytes(b, l.next, l.val)]))
                    [] wt = 5 ->
                       IF t.next + 4 > Len(b) + 1
                       THEN [ok |-> FALSE, fields |-> <<>>]
                       ELSE ParseFields(b, t.next + 4,
                                Append(acc, [num |-> num, wt |-> 5, val |-> <<>>]))
                    [] OTHER -> [ok |-> FALSE, fields |-> <<>>]

\* The value of the last length-delimited field num, <<>> when absent.
RECURSIVE LastField(_, _, _)
LastField(fields, num, k) ==
    IF k = 0 THEN <<>>
    ELSE IF fields[k].num = num /\ fields[k].wt = 2 THEN fields[k].val
         ELSE LastField(fields, num, k - 1)

HasField(fields, num) == \E k \in 1..Len(fields) : fields[k].num = num

\* A known field met with a wire type other than its own is an error;
\* expect maps the known field numbers to their wire types.
WireTypesOk(fields, expect) ==
    \A k \in 1..Len(fields) :
        fields[k].num \in DOMAIN expect => fields[k].wt = expect[fields[k].num]

\* utf8.Valid
RECURSIVE ValidUTF8(_, _)
ValidUTF8(s, pos) ==
    LET Cont(k, lo, hi) == k <= Len(s) /\ s[k] >= lo /\ s[k] <= hi
        c == s[pos]
    IN  IF pos > Len(s) THEN TRUE
        ELSE IF c < 128 THEN ValidUTF8(s, pos + 1)
        ELSE IF c >= 194 /\ c <= 223
             THEN Cont(pos + 1, 128, 191) /\ ValidUTF8(s, pos + 2)
        ELSE IF c >= 224 /\ c <= 239
             THEN /\ Cont(pos + 1, IF c = 224 THEN 160 ELSE 128,
                                   IF c = 237 THEN 159 ELSE 191)
                  /\ Cont(pos + 2, 128, 191)
                  /\ ValidUTF8(s, pos + 3)
        ELSE IF c >= 240 /\ c <= 244
             THEN /\ Cont(pos + 1, IF c = 240 THEN 144 ELSE 128,
                                   IF c = 244 THEN 143 ELSE 191)
                  /\ Cont(pos + 2, 128, 191)
                  /\ Cont(pos + 3, 128, 191)
                  /\ ValidUTF8(s, pos + 4)
        ELSE FALSE

(***************************************************************************)
(* Error values.                                                           *)
(***************************************************************************)
Err(kind, msg, vals) == [kind |-> kind, msg |-> msg, vals |-> vals]
\* the nil error
NoErr == Err("nil", "", <<>>)
\* no value returned yet
Pending == Err("pending", "", <<>>)
\* errors.WithMessage / errors.Wrap: the cause is kept under the new text
WithMessage(kind, cause, msg, vals) == Err(kind, msg, Append(vals, cause))
\* the error a collaborator returns
CollabErr(what) == Err("collaborator", what, <<>>)

(***************************************************************************)
(* lb.InstallChaincodeArgs and lb.InstallChaincodeResult.                  *)
(***************************************************************************)
\* proto.Marshal of InstallChaincodeArgs: name = 1, version = 2,
\* chaincode_install_package = 3; a string that is not UTF-8 is an error.
MarshalInstallChaincodeArgs(m) ==
    [err |-> ~(ValidUTF8(m.Name, 1) /\ ValidUTF8(m.Version, 1)),
     bytes |-> OptField(1, m.Name) \o OptField(2, m.Version)
               \o OptField(3, m.ChaincodeInstallPackage)]

InstallChaincodeArgsOf(p, name, version) ==
    IF p.ok /\ WireTypesOk(p.fields, [n \in {1, 2, 3} |-> 2])
       /\ ValidUTF8(name, 1) /\ ValidUTF8(version, 1)
    THEN [err |-> FALSE,
          msg |-> [Name |-> name, Version |-> version,
                   ChaincodeInstallPackage |->
                       LastField(p.fields, 3, Len(p.fields))]]
    ELSE [err |-> TRUE,
          msg |-> [Name |-> Empty, Version |-> Empty,
                   ChaincodeInstallPackage |-> Empty]]

InstallChaincodeArgsOfFields(p) ==
    InstallChaincodeArgsOf(p, LastField(p.fields, 1, Len(p.fields)),
                           LastField(p.fields, 2, Len(p.fields)))

\* proto.Unmarshal into InstallChaincodeArgs
UnmarshalInstallChaincodeArgs(b) == InstallChaincodeArgsOfFields(ParseFields(b, 1, <<>>))

InstallChaincodeResultOf(p) ==
    IF p.ok /\ WireTypesOk(p.fields, [n \in {1} |-> 2])
    THEN [err |-> FALSE, Hash |-> LastField(p.fields, 1, Len(p.fields))]
    ELSE [err |-> TRUE, Hash |-> Empty]

\* proto.Unmarshal into InstallChaincodeResult: hash = 1.
UnmarshalInstallChaincodeResult(b) == InstallChaincodeResultOf(ParseFields(b, 1, <<>>))

(***************************************************************************)
(* The package codec: chaincode deployment specs and signed envelopes.     *)
(***************************************************************************)
\* The bytes of a ChaincodeDeploymentSpec: chaincode_spec = 1, in it
\* chaincode_id = 2, in it name = 2 and version = 3.
CDSBytes(name, version) ==
    LenField(1, LenField(2, OptField(2, name) \o OptField(3, version)))

\* The bytes of an Envelope: payload = 1, in it header = 1 and data = 2,
\* the data a SignedChaincodeDeploymentSpec: chaincode_deployment_spec = 1.
EnvBytes(header, cdsBytes) ==
    LenField(1, LenField(1, header) \o LenField(2, OptField(1, cdsBytes)))

\* "CHAINCODE_PACKAGE", standing for the header of a signed package
pkgHeader == <<6>>

NilObject == [type |-> "nil"]

\* The fields of a message.
Fields(b) == ParseFields(b, 1, <<>>)

NoCDS == [err |-> TRUE, cds |-> NilObject]

\* The deployment spec whose ChaincodeID has the fields id.
CDSOfId(id) ==
    IF id.ok /\ WireTypesOk(id.fields, [n \in {1, 2, 3} |-> 2])
    THEN [err |-> FALSE,
          cds |-> [type |-> "ChaincodeDeploymentSpec",
                   Name |-> LastField(id.fields, 2, Len(id.fields)),
                   Version |-> LastField(id.fields, 3, Len(id.fields))]]
    ELSE NoCDS

\* The deployment spec whose ChaincodeSpec has the fields spec.
CDSOfSpec(spec) ==
    IF spec.ok /\ WireTypesOk(spec.fields, (1 :> 0) @@ (2 :> 2))
       /\ HasField(spec.fields, 2)
    THEN CDSOfId(Fields(LastField(spec.fields, 2, Len(spec.fields))))
    ELSE NoCDS

\* The deployment spec with the fields top.
CDSOfFields(top) ==
    IF top.ok /\ WireTypesOk(top.fields, (1 :> 2) @@ (3 :> 2))
       /\ HasField(top.fields, 1)
    THEN CDSOfSpec(Fields(LastField(top.fields, 1, Len(top.fields))))
    ELSE NoCDS

\* The deployment spec that bytes hold: [err, cds].
ParseCDS(b) == CDSOfFields(Fields(b))

NoEnvelope == [err |-> TRUE, env |-> NilObject]

EnvelopeOfPayload(payload, inner) ==
    IF inner.ok /\ WireTypesOk(inner.fields, [n \in {1, 2} |-> 2])
       /\ HasField(inner.fields, 1)
    THEN [err |-> FALSE, env |-> [type |-> "Envelope", Payload |-> payload]]
    ELSE NoEnvelope

EnvelopeOfFields(top, payload) ==
    IF top.ok /\ WireTypesOk(top.fields, [n \in {1, 2} |-> 2])
       /\ HasField(top.fields, 1)
    THEN EnvelopeOfPayload(payload, Fields(payload))
    ELSE NoEnvelope

FirstField(p) == LastField(p.fields, 1, Len(p.fields))
SecondField(p) == LastField(p.fields, 2, Len(p.fields))

EnvelopeOf(top) == EnvelopeOfFields(top, FirstField(top))

\* The envelope that bytes hold: [err, env]; only the outer shape (a
\* payload with a header) is looked at.
ParseEnvelope(b) == EnvelopeOf(Fields(b))

PackageOf(cds, env) ==
    IF ~cds.err THEN [err |-> FALSE, obj |-> cds.cds]
    ELSE IF ~env.err THEN [err |-> FALSE, obj |-> env.env]
    ELSE [err |-> TRUE, obj |-> NilObject]

\* ccprovider.GetCCPackage followed by GetPackageObject: a deployment
\* spec, else a signed envelope, else an error.
GetCCPackage(buf) == PackageOf(ParseCDS(buf), ParseEnvelope(buf))

SignedOfData(signed) ==
    IF signed.ok /\ HasField(signed.fields, 1)
       /\ WireTypesOk(signed.fields, [n \in {1, 2, 3} |-> 2])
    THEN [err |-> FALSE, ChaincodeDeploymentSpec |-> FirstField(signed)]
    ELSE [err |-> TRUE, ChaincodeDeploymentSpec |-> Empty]

SignedOfPayload(inner) ==
    IF inner.ok
    THEN SignedOfData(Fields(SecondField(inner)))
    ELSE [err |-> TRUE, ChaincodeDeploymentSpec |-> Empty]

\* ccpackage.ExtractSignedCCDepSpec: the signed deployment spec of an
\* envelope, [err, ChaincodeDeploymentSpec (bytes)].
ExtractSignedCCDepSpec(env) == SignedOfPayload(Fields(env.Payload))

\* protoutil.GetChaincodeDeploymentSpec
GetChaincodeDeploymentSpec(bytes) == ParseCDS(bytes)

\* What a package file can hold: a deployment spec, a signed envelope of
\* one, an envelope without a signed spec, an envelope of bytes that are
\* no deployment spec, bytes that are no package, and nothing.
FileBytes ==
    { CDSBytes(mycc, v10),
      EnvBytes(pkgHeader, CDSBytes(mycc, v10)),
      EnvBytes(pkgHeader, Empty),
      EnvBytes(pkgHeader, <<255>>),
      <<255>>,
      Empty }

(***************************************************************************)
(* Inputs of an invocation and answers of the collaborators.               *)
(***************************************************************************)
Names == {Empty, mycc, othercc, badName}
Versions == {Empty, v10, v20}
Paths == {Empty, srcPath}
ArgLists == {<<>>, <<pkgBin>>}

\* The flag values and the positional arguments of one invocation.
Calls ==
    [chaincodeName : Names, chaincodeVersion : Versions,
     chaincodePath : Paths, newLifecycle : BOOLEAN, args : ArgLists]

\* common.UndefinedParamValue
UndefinedParamValue == Empty

\* cb.Status_SUCCESS
Status_SUCCESS == 200
StatusCodes == {Status_SUCCESS, 500}
\* "bad request"
badRequest == <<98, 97, 100, 32, 114, 101, 113, 117, 101, 115, 116>>
Messages == {Empty, badRequest}

RECURSIVE SeqsUpTo(_, _)
SeqsUpTo(S, n) ==
    IF n = 0 THEN {<<>>}
    ELSE SeqsUpTo(S, n - 1) \cup
         {Append(q, x) : q \in {r \in SeqsUpTo(S, n - 1) : Len(r) = n - 1}, x \in S}

PayloadBytes == {1, 10}
Payloads == SeqsUpTo(PayloadBytes, MaxPayloadLen)

\* Reader.ReadFile / ioutil.ReadFile
ReadOutcomes ==
    {[err |-> TRUE, bytes |-> Empty]} \cup {[err |-> FALSE, bytes |-> b] : b \in FileBytes}

\* the serialized identity of the signer
creatorBytes == <<99>>
\* Signer.Serialize
SerializeOutcomes ==
    {[err |-> TRUE, bytes |-> Empty], [err |-> FALSE, bytes |-> creatorBytes]}

NilResponse == [tag |-> "nil"]
\* EndorserClient.ProcessProposal: a transport error (with or without a
\* response beside it), a nil response, a response without inner Response,
\* or a response with one.
EndorserOutcomes ==
    {[err |-> TRUE, resp |-> NilResponse],
     [err |-> TRUE,
      resp |-> [tag |-> "ProposalResponse",
                Response |-> [tag |-> "Response", Status |-> Status_SUCCESS,
                              Message |-> Empty, Payload |-> Empty]]],
     [err |-> FALSE, resp |-> NilResponse],
     [err |-> FALSE, resp |-> [tag |-> "ProposalResponse", Response |-> NilResponse]]}
    \cup
    {[err |-> FALSE,
      resp |-> [tag |-> "ProposalResponse",
                Response |-> [tag |-> "Response", Status |-> st,
                              Message |-> m, Payload |-> pl]]] :
        st \in StatusCodes, m \in Messages, pl \in Payloads}

\* getChaincodeSpec and getChaincodeDeploymentSpec
BuilderOutcomes == {"specErr", "cdsErr", "ok"}

(***************************************************************************)
(* The functions of install.go.                                            *)
(***************************************************************************)
NilInput == [nil |-> TRUE]

setInput(call) ==
    [Name |-> call.chaincodeName,
     Version |-> call.chaincodeVersion,
     Language |-> Empty,
     PackageFile |-> IF Len(call.args) > 0 THEN call.args[1] ELSE Empty,
     Path |-> call.chaincodePath,
     NewLifecycle |-> call.newLifecycle]

\* validateInput without the check that forbids the path.
validateInput_PathAllowed(in) ==
    IF in.PackageFile = Empty
    THEN Err("InvalidInput", "chaincode install package must be provided", <<>>)
    ELSE IF in.Name = Empty
    THEN Err("InvalidInput", "chaincode name must be specified", <<>>)
    ELSE IF in.Version = Empty
    THEN Err("InvalidInput", "chaincode version must be specified", <<>>)
    ELSE NoErr

validateInput(in) ==
    IF in.PackageFile = Empty
    THEN Err("InvalidInput", "chaincode install package must be provided", <<>>)
    ELSE IF in.Name = Empty
    THEN Err("InvalidInput", "chaincode name must be specified", <<>>)
    ELSE IF in.Version = Empty
    THEN Err("InvalidInput", "chaincode version must be specified", <<>>)
    ELSE IF in.Path # Empty
    THEN Err("InvalidInput", "chaincode path parameter not supported by _lifecycle", <<>>)
    ELSE NoErr

NilProposal == [tag |-> "nil"]

\* protoutil.CreateProposalFromCIS: the invocation spec and the creator
\* wrapped into a proposal; cisOk is whether it succeeds.
CreateProposalFromCIS(cis, creator, cisOk) ==
    IF cisOk
    THEN [err |-> NoErr,
          proposal |-> [tag |-> "Proposal", ChaincodeId |-> cis.ChaincodeId,
                        Args |-> cis.Args, Creator |-> creator]]
    ELSE [err |-> CollabErr("CreateProposalFromCIS"), proposal |-> NilProposal]

\* The outcome of createNewLifecycleInstallProposal once the arguments are
\* marshaled and wrapped (lines 244-262).
lifecycleProposalOf(marshaled, created) ==
    IF marshaled.err
    THEN [err |-> WithMessage("EncodingFailed", CollabErr("Marshal"),
                              "error marshaling InstallChaincodeArgs", <<>>),
          proposal |-> NilProposal,
          calls |-> <<[op |-> "Marshal", ok |-> FALSE]>>]
    ELSE IF created.err.kind # "nil"
    THEN [err |-> WithMessage("EncodingFailed", created.err,
                              "error creating proposal for ChaincodeInvocationSpec", <<>>),
          proposal |-> NilProposal,
          calls |-> <<[op |-> "Marshal", ok |-> TRUE],
                      [op |-> "CreateProposal", ok |-> FALSE]>>]
    ELSE [err |-> NoErr,
          proposal |-> created.proposal,
          calls |-> <<[op |-> "Marshal", ok |-> TRUE],
                      [op |-> "CreateProposal", ok |-> TRUE]>>]

\* The invocation spec of the lifecycle install (lines 248-255).
lifecycleInvocationSpec(marshaled) ==
    [ChaincodeId |-> newLifecycleName,
     Args |-> <<InstallChaincodeFn, marshaled.bytes>>]

lifecycleProposalOfArgs(marshaled, creator, cisOk) ==
    lifecycleProposalOf(marshaled,
        CreateProposalFromCIS(lifecycleInvocationSpec(marshaled), creator, cisOk))

\* createNewLifecycleInstallProposal putting the version where the name
\* belongs and the name where the version belongs.
createNewLifecycleInstallProposal_Swapped(name, version, pkgBytes, creator, cisOk) ==
    lifecycleProposalOfArgs(
        MarshalInstallChaincodeArgs(
            [Name |-> version, Version |-> name, ChaincodeInstallPackage |-> pkgBytes]),
        creator, cisOk)

createNewLifecycleInstallProposal(name, version, pkgBytes, creator, cisOk) ==
    lifecycleProposalOfArgs(
        MarshalInstallChaincodeArgs(
            [Name |-> name, Version |-> version, ChaincodeInstallPackage |-> pkgBytes]),
        creator, cisOk)

Call(op, ok) == [op |-> op, ok |-> ok]

NoPackage(read, e, calls) ==
    [err |-> e, o |-> NilObject, cds |-> NilObject,
     ccPkgBytes |-> read.bytes, calls |-> calls]

\* packageFromSigned returning the unwrapped deployment spec as the package.
packageFromSigned_Unwrapped(read, o, unwrapped) ==
    IF unwrapped.err
    THEN NoPackage(read,
             WithMessage("InvalidPackage", CollabErr("GetChaincodeDeploymentSpec"),
                         "error extracting chaincode deployment spec", <<>>),
             <<Call("ReadFile", TRUE), Call("GetCCPackage", TRUE),
               Call("ExtractSignedCCDepSpec", TRUE),
               Call("GetChaincodeDeploymentSpec", FALSE)>>)
    ELSE [err |-> NoErr, o |-> unwrapped.cds, cds |-> unwrapped.cds,
          ccPkgBytes |-> read.bytes,
          calls |-> <<Call("ReadFile", TRUE), Call("GetCCPackage", TRUE),
                      Call("ExtractSignedCCDepSpec", TRUE),
                      Call("GetChaincodeDeploymentSpec", TRUE)>>]

\* getPackageFromFile once the envelope is unwrapped (lines 369-375).
packageFromSigned(read, o, unwrapped) ==
    IF unwrapped.err
    THEN NoPackage(read,
             WithMessage("InvalidPackage", CollabErr("GetChaincodeDeploymentSpec"),
                         "error extracting chaincode deployment spec", <<>>),
             <<Call("ReadFile", TRUE), Call("GetCCPackage", TRUE),
               Call("ExtractSignedCCDepSpec", TRUE),
               Call("GetChaincodeDeploymentSpec", FALSE)>>)
    ELSE [err |-> NoErr, o |-> o, cds |-> unwrapped.cds, ccPkgBytes |-> read.bytes,
          calls |-> <<Call("ReadFile", TRUE), Call("GetCCPackage", TRUE),
                      Call("ExtractSignedCCDepSpec", TRUE),
                      Call("GetChaincodeDeploymentSpec", TRUE)>>]

\* getPackageFromFile for an envelope (lines 362-372).
packageFromEnvelope(read, o, extracted) ==
    IF extracted.err
    THEN NoPackage(read,
             WithMessage("InvalidPackage", CollabErr("ExtractSignedCCDepSpec"),
                         "error extracting valid signed chaincode package", <<>>),
             <<Call("ReadFile", TRUE), Call("GetCCPackage", TRUE),
               Call("ExtractSignedCCDepSpec", FALSE)>>)
    ELSE packageFromSigned(read, o,
             GetChaincodeDeploymentSpec(extracted.ChaincodeDeploymentSpec))

\* packageFromObject taking an object that is neither a deployment spec nor
\* an envelope for a package without identity.
packageFromObject_NotClosed(read, ccpack) ==
    IF ccpack.err
    THEN NoPackage(read, Err("InvalidPackage", "GetCCPackage", <<>>),
                   <<Call("ReadFile", TRUE), Call("GetCCPackage", FALSE)>>)
    ELSE IF ccpack.obj.type = "ChaincodeDeploymentSpec"
    THEN [err |-> NoErr, o |-> ccpack.obj, cds |-> ccpack.obj,
          ccPkgBytes |-> read.bytes,
          calls |-> <<Call("ReadFile", TRUE), Call("GetCCPackage", TRUE)>>]
    ELSE IF ccpack.obj.type # "Envelope"
    THEN [err |-> NoErr, o |-> ccpack.obj,
          cds |-> [type |-> "ChaincodeDeploymentSpec", Name |-> Empty, Version |-> Empty],
          ccPkgBytes |-> read.bytes,
          calls |-> <<Call("ReadFile", TRUE), Call("GetCCPackage", TRUE)>>]
    ELSE packageFromEnvelope(read, ccpack.obj, ExtractSignedCCDepSpec(ccpack.obj))

\* getPackageFromFile after GetCCPackage (lines 346-375): o is tried as a
\* deployment spec first, as an envelope next.
packageFromObject(read, ccpack) ==
    IF ccpack.err
    THEN NoPackage(read, Err("InvalidPackage", "GetCCPackage", <<>>),
                   <<Call("ReadFile", TRUE), Call("GetCCPackage", FALSE)>>)
    ELSE IF ccpack.obj.type = "ChaincodeDeploymentSpec"
    THEN [err |-> NoErr, o |-> ccpack.obj, cds |-> ccpack.obj,
          ccPkgBytes |-> read.bytes,
          calls |-> <<Call("ReadFile", TRUE), Call("GetCCPackage", TRUE)>>]
    ELSE IF ccpack.obj.type # "Envelope"
    THEN NoPackage(read,
             Err("InvalidPackage", "error extracting valid chaincode package", <<>>),
             <<Call("ReadFile", TRUE), Call("GetCCPackage", TRUE)>>)
    ELSE packageFromEnvelope(read, ccpack.obj, ExtractSignedCCDepSpec(ccpack.obj))

\* getPackageFromFile: read is what ioutil.ReadFile returns.
getPackageFromFile(read) ==
    IF read.err
    THEN NoPackage(read, Err("PackageUnreadable", "ReadFile", <<>>),
                   <<Call("ReadFile", FALSE)>>)
    ELSE packageFromObject(read, GetCCPackage(read.bytes))

\* genChaincodeDeploymentSpec building the package whatever the answer of
\* ccprovider.ChaincodePackageExists.
genChaincodeDeploymentSpec_ProbeIgnored(chaincodeName, chaincodeVersion, existed, built) ==
    IF built = "specErr"
    THEN [err |-> Err("PackagingFailed", "getChaincodeSpec", <<>>),
          cds |-> NilObject,
          calls |-> <<Call("ChaincodePackageExists", TRUE), Call("getChaincodeSpec", FALSE)>>]
    ELSE IF built = "cdsErr"
    THEN [err |-> WithMessage("PackagingFailed", CollabErr("getChaincodeDeploymentSpec"),
                              "error getting chaincode deployment spec for %s",
                              <<chaincodeName>>),
          cds |-> NilObject,
          calls |-> <<Call("ChaincodePackageExists", TRUE), Call("getChaincodeSpec", TRUE),
                      Call("getChaincodeDeploymentSpec", FALSE)>>]
    ELSE [err |-> NoErr,
          cds |-> [type |-> "ChaincodeDeploymentSpec",
                   Name |-> chaincodeName, Version |-> chaincodeVersion],
          calls |-> <<Call("ChaincodePackageExists", TRUE), Call("getChaincodeSpec", TRUE),
                      Call("getChaincodeDeploymentSpec", TRUE)>>]

\* genChaincodeDeploymentSpec: existed is the answer of
\* ccprovider.ChaincodePackageExists, built the outcome of getChaincodeSpec
\* and getChaincodeDeploymentSpec.
genChaincodeDeploymentSpec(chaincodeName, chaincodeVersion, existed, built) ==
    IF existed
    THEN [err |-> Err("AlreadyInstalled", "chaincode %s:%s already exists",
                      <<chaincodeName, chaincodeVersion>>),
          cds |-> NilObject,
          calls |-> <<Call("ChaincodePackageExists", TRUE)>>]
    ELSE IF built = "specErr"
    THEN [err |-> Err("PackagingFailed", "getChaincodeSpec", <<>>),
          cds |-> NilObject,
          calls |-> <<Call("ChaincodePackageExists", TRUE), Call("getChaincodeSpec", FALSE)>>]
    ELSE IF built = "cdsErr"
    THEN [err |-> WithMessage("PackagingFailed", CollabErr("getChaincodeDeploymentSpec"),
                              "error getting chaincode deployment spec for %s",
                              <<chaincodeName>>),
          cds |-> NilObject,
          calls |-> <<Call("ChaincodePackageExists", TRUE), Call("getChaincodeSpec", TRUE),
                      Call("getChaincodeDeploymentSpec", FALSE)>>]
    ELSE [err |-> NoErr,
          cds |-> [type |-> "ChaincodeDeploymentSpec",
                   Name |-> chaincodeName, Version |-> chaincodeVersion],
          calls |-> <<Call("ChaincodePackageExists", TRUE), Call("getChaincodeSpec", TRUE),
                      Call("getChaincodeDeploymentSpec", TRUE)>>]

\* getLegacyChaincodePackageMessage without a package file, after the
\* parameters are checked (lines 271-276).
generatedPackageMessage(gen) ==
    [err |-> gen.err, msg |-> gen.cds, ccPkgBytes |-> Empty, calls |-> gen.calls]

NoMessage(pkg, e) ==
    [err |-> e, msg |-> NilObject, ccPkgBytes |-> pkg.ccPkgBytes, calls |-> pkg.calls]

\* checkPackageIdentity without the comparison of the versions.
checkPackageIdentity_NoVersionCheck(in, pkg, cName, cVersion) ==
    IF pkg.err.kind # "nil"
    THEN NoMessage(pkg, pkg.err)
    ELSE IF in.Name # Empty /\ in.Name # cName
    THEN NoMessage(pkg, Err("IdentityMismatch",
                            "chaincode name %s does not match name %s in package",
                            <<in.Name, cName>>))
    ELSE [err |-> NoErr, msg |-> pkg.o, ccPkgBytes |-> pkg.ccPkgBytes,
          calls |-> pkg.calls]

\* checkPackageIdentity comparing the names only when none was given.
checkPackageIdentity_NameOverridden(in, pkg, cName, cVersion) ==
    IF pkg.err.kind # "nil"
    THEN NoMessage(pkg, pkg.err)
    ELSE IF in.Name = Empty /\ in.Name # cName
    THEN NoMessage(pkg, Err("IdentityMismatch",
                            "chaincode name %s does not match name %s in package",
                            <<in.Name, cName>>))
    ELSE IF in.Version # Empty /\ in.Version # cVersion
    THEN NoMessage(pkg, Err("IdentityMismatch",
                            "chaincode version %s does not match version %s in packages",
                            <<in.Version, cVersion>>))
    ELSE [err |-> NoErr, msg |-> pkg.o, ccPkgBytes |-> pkg.ccPkgBytes,
          calls |-> pkg.calls]

\* getLegacyChaincodePackageMessage with a package file, after
\* getPackageFromFile (lines 283-301): cName and cVersion are the name and
\* the version of the deployment spec of the package.
checkPackageIdentity(in, pkg, cName, cVersion) ==
    IF pkg.err.kind # "nil"
    THEN NoMessage(pkg, pkg.err)
    ELSE IF in.Name # Empty /\ in.Name # cName
    THEN NoMessage(pkg, Err("IdentityMismatch",
                            "chaincode name %s does not match name %s in package",
                            <<in.Name, cName>>))
    ELSE IF in.Version # Empty /\ in.Version # cVersion
    THEN NoMessage(pkg, Err("IdentityMismatch",
                            "chaincode version %s does not match version %s in packages",
                            <<in.Version, cVersion>>))
    ELSE [err |-> NoErr, msg |-> pkg.o, ccPkgBytes |-> pkg.ccPkgBytes,
          calls |-> pkg.calls]

packageMessageFromFile(in, pkg) ==
    checkPackageIdentity(in, pkg,
        IF pkg.err.kind = "nil" THEN pkg.cds.Name ELSE Empty,
        IF pkg.err.kind = "nil" THEN pkg.cds.Version ELSE Empty)

\* getLegacyChaincodePackageMessage synthesizing a package whenever a path
\* is given, package file or not.
getLegacyChaincodePackageMessage_PathFirst(in, read, existed, built) ==
    IF in.PackageFile = Empty \/ in.Path # UndefinedParamValue
    THEN IF \/ in.Path = UndefinedParamValue
            \/ in.Version = UndefinedParamValue
            \/ in.Name = UndefinedParamValue
         THEN [err |-> Err("MissingParameter",
                           "must supply value for %s name, path and version parameters",
                           <<>>),
               msg |-> NilObject, ccPkgBytes |-> Empty, calls |-> <<>>]
         ELSE generatedPackageMessage(
                  genChaincodeDeploymentSpec(in.Name, in.Version, existed, built))
    ELSE packageMessageFromFile(in, getPackageFromFile(read))

getLegacyChaincodePackageMessage(in, read, existed, built) ==
    IF in.PackageFile = Empty
    THEN IF \/ in.Path = UndefinedParamValue
            \/ in.Version = UndefinedParamValue
            \/ in.Name = UndefinedParamValue
         THEN [err |-> Err("MissingParameter",
                           "must supply value for %s name, path and version parameters",
                           <<>>),
               msg |-> NilObject, ccPkgBytes |-> Empty, calls |-> <<>>]
         ELSE generatedPackageMessage(
                  genChaincodeDeploymentSpec(in.Name, in.Version, existed, built))
    ELSE packageMessageFromFile(in, getPackageFromFile(read))

\* createLegacyInstallProposal: ser is what Signer.Serialize returns, propOk
\* whether protoutil.CreateInstallProposalFromCDS succeeds.
createLegacyInstallProposal(msg, ser, propOk) ==
    IF ser.err
    THEN [err |-> WithMessage("IdentitySerializationFailed", CollabErr("Serialize"),
                              "error serializing identity for %s", <<>>),
          proposal |-> NilProposal,
          calls |-> <<Call("Serialize", FALSE)>>]
    ELSE IF ~propOk
    THEN [err |-> WithMessage("EncodingFailed", CollabErr("CreateInstallProposalFromCDS"),
                              "error creating proposal for %s", <<>>),
          proposal |-> NilProposal,
          calls |-> <<Call("Serialize", TRUE), Call("CreateProposal", FALSE)>>]
    ELSE [err |-> NoErr,
          proposal |-> [tag |-> "Proposal", Payload |-> msg, Creator |-> ser.bytes],
          calls |-> <<Call("Serialize", TRUE), Call("CreateProposal", TRUE)>>]

NilSigned == [tag |-> "nil"]
\* the signature the signer puts on a proposal
signature == <<115>>

\* protoutil.GetSignedProposal and the wrapping of its error.
GetSignedProposal(proposal, signOk) ==
    IF signOk
    THEN [err |-> NoErr,
          signed |-> [tag |-> "SignedProposal", Proposal |-> proposal,
                      Signature |-> signature]]
    ELSE [err |-> WithMessage("SigningFailed", CollabErr("Sign"),
                              "error creating signed proposal for %s", <<>>),
          signed |-> NilSigned]

\* decodeResult unmarshaling the payload in either dialect.
decodeResult_AnyDialect(newLifecycle, decoded) ==
    IF decoded.err
    THEN [err |-> WithMessage("ResultDecodeFailed", CollabErr("Unmarshal"),
                              "error unmarshaling proposal response's response payload",
                              <<>>),
          calls |-> <<Call("Unmarshal", FALSE)>>]
    ELSE [err |-> NoErr, calls |-> <<Call("Unmarshal", TRUE)>>]

\* checkProposalResponse for a response with success status (lines
\* 202-213): decoded is the payload unmarshaled into InstallChaincodeResult.
decodeResult(newLifecycle, decoded) ==
    IF newLifecycle
    THEN IF decoded.err
         THEN [err |-> WithMessage("ResultDecodeFailed", CollabErr("Unmarshal"),
                                   "error unmarshaling proposal response's response payload",
                                   <<>>),
               calls |-> <<Call("Unmarshal", FALSE)>>]
         ELSE [err |-> NoErr, calls |-> <<Call("Unmarshal", TRUE)>>]
    ELSE [err |-> NoErr, calls |-> <<>>]

\* checkProposalResponse unmarshaling the payload before it looks at the
\* status.
checkProposalResponse_DecodeFirst(newLifecycle, callErr, proposalResponse) ==
    IF callErr
    THEN [err |-> WithMessage("TransportFailed", CollabErr("ProcessProposal"),
                              "error endorsing chaincode install", <<>>),
          calls |-> <<>>]
    ELSE IF proposalResponse.tag = "nil"
    THEN [err |-> Err("MalformedResponse",
                      "error during install: received nil proposal response", <<>>),
          calls |-> <<>>]
    ELSE IF proposalResponse.Response.tag = "nil"
    THEN [err |-> Err("MalformedResponse",
                      "error during install: received proposal response with nil response",
                      <<>>),
          calls |-> <<>>]
    ELSE IF decodeResult(newLifecycle,
                UnmarshalInstallChaincodeResult(proposalResponse.Response.Payload)).err.kind
            # "nil"
    THEN decodeResult(newLifecycle,
             UnmarshalInstallChaincodeResult(proposalResponse.Response.Payload))
    ELSE IF proposalResponse.Response.Status # Status_SUCCESS
    THEN [err |-> Err("InstallRejected", "install failed with status: %d - %s",
                      <<proposalResponse.Response.Status,
                        proposalResponse.Response.Message>>),
          calls |-> decodeResult(newLifecycle,
                        UnmarshalInstallChaincodeResult(
                            proposalResponse.Response.Payload)).calls]
    ELSE decodeResult(newLifecycle,
             UnmarshalInstallChaincodeResult(proposalResponse.Response.Payload))

\* checkProposalResponse taking the result without looking at the error of
\* the unmarshaling.
checkProposalResponse_DecodeErrorDropped(newLifecycle, callErr, proposalResponse) ==
    IF callErr
    THEN [err |-> WithMessage("TransportFailed", CollabErr("ProcessProposal"),
                              "error endorsing chaincode install", <<>>),
          calls |-> <<>>]
    ELSE IF proposalResponse.tag = "nil"
    THEN [err |-> Err("MalformedResponse",
                      "error during install: received nil proposal response", <<>>),
          calls |-> <<>>]
    ELSE IF proposalResponse.Response.tag = "nil"
    THEN [err |-> Err("MalformedResponse",
                      "error during install: received proposal response with nil response",
                      <<>>),
          calls |-> <<>>]
    ELSE IF proposalResponse.Response.Status # Status_SUCCESS
    THEN [err |-> Err("InstallRejected", "install failed with status: %d - %s",
                      <<proposalResponse.Response.Status,
                        proposalResponse.Response.Message>>),
          calls |-> <<>>]
    ELSE [err |-> NoErr,
          calls |-> IF newLifecycle
                    THEN <<Call("Unmarshal",
                                ~UnmarshalInstallChaincodeResult(
                                     proposalResponse.Response.Payload).err)>>
                    ELSE <<>>]

\* checkProposalResponse taking a response without inner Response for an
\* acceptance.
checkProposalResponse_NilInnerAccepted(newLifecycle, callErr, proposalResponse) ==
    IF callErr
    THEN [err |-> WithMessage("TransportFailed", CollabErr("ProcessProposal"),
                              "error endorsing chaincode install", <<>>),
          calls |-> <<>>]
    ELSE IF proposalResponse.tag = "nil"
    THEN [err |-> Err("MalformedResponse",
                      "error during install: received nil proposal response", <<>>),
          calls |-> <<>>]
    ELSE IF proposalResponse.Response.tag = "nil"
    THEN [err |-> NoErr, calls |-> <<>>]
    ELSE IF proposalResponse.Response.Status # Status_SUCCESS
    THEN [err |-> Err("InstallRejected", "install failed with status: %d - %s",
                      <<proposalResponse.Response.Status,
                        proposalResponse.Response.Message>>),
          calls |-> <<>>]
    ELSE decodeResult(newLifecycle,
             UnmarshalInstallChaincodeResult(proposalResponse.Response.Payload))

\* submitInstallProposal after the call of ProcessProposal (lines 187-213):
\* callErr and proposalResponse are what the call returned.
checkProposalResponse(newLifecycle, callErr, proposalResponse) ==
    IF callErr
    THEN [err |-> WithMessage("TransportFailed", CollabErr("ProcessProposal"),
                              "error endorsing chaincode install", <<>>),
          calls |-> <<>>]
    ELSE IF proposalResponse.tag = "nil"
    THEN [err |-> Err("MalformedResponse",
                      "error during install: received nil proposal response", <<>>),
          calls |-> <<>>]
    ELSE IF proposalResponse.Response.tag = "nil"
    THEN [err |-> Err("MalformedResponse",
                      "error during install: received proposal response with nil response",
                      <<>>),
          calls |-> <<>>]
    ELSE IF proposalResponse.Response.Status # Status_SUCCESS
    THEN [err |-> Err("InstallRejected", "install failed with status: %d - %s",
                      <<proposalResponse.Response.Status,
                        proposalResponse.Response.Message>>),
          calls |-> <<>>]
    ELSE decodeResult(newLifecycle,
             UnmarshalInstallChaincodeResult(proposalResponse.Response.Payload))

(***************************************************************************)
(* State.                                                                  *)
(***************************************************************************)
\* The goroutines that call installChaincode on the Installer.
Callers == {1, 2}

VARIABLES
    Input,    \* Installer.Input, shared by every call on the Installer
    pc,       \* where each caller is in installChaincode
    call,     \* the flag values and arguments of each caller's invocation
    loc,      \* the local variables of each caller's invocation
    trace,    \* the collaborator calls each invocation made, in order
    result,   \* the error each invocation returned
    stage,    \* the workflow state each invocation is in
    repeat,   \* the invocation repeats the caller's previous, successful one
    EndorserClients,  \* Installer.EndorserClients, each client named by its index
    contacted,        \* the endorser clients each invocation called, in order
    prevFile          \* Input.PackageFile as it was before the latest setInput

vars ==
    <<Input, pc, call, loc, trace, result, stage, repeat,
      EndorserClients, contacted, prevFile>>

NoCall ==
    [chaincodeName |-> Empty, chaincodeVersion |-> Empty, chaincodePath |-> Empty,
     newLifecycle |-> FALSE, args |-> <<>>]

NilLoc ==
    [pkgBytes |-> Empty, serializedSigner |-> Empty,
     ccPkgBytes |-> Empty, ccPkgMsg |-> NilObject,
     proposal |-> NilProposal, signedProposal |-> NilSigned,
     callErr |-> FALSE, proposalResponse |-> NilResponse,
     existed |-> FALSE, o |-> NilObject]

\* n endorser clients, named by their index in Installer.EndorserClients.
Clients(n) == [k \in 1..n |-> k - 1]

Init ==
    /\ Input = NilInput
    /\ EndorserClients \in {Clients(n) : n \in 1..MaxClients}
    /\ contacted = [p \in Callers |-> <<>>]
    /\ prevFile = Empty
    /\ pc = [p \in Callers |-> "idle"]
    /\ call = [p \in Callers |-> NoCall]
    /\ loc = [p \in Callers |-> NilLoc]
    /\ trace = [p \in Callers |-> <<>>]
    /\ result = [p \in Callers |-> Pending]
    /\ stage = [p \in Callers |-> "NONE"]
    /\ repeat = [p \in Callers |-> FALSE]

\* The invocation of p returns e after the collaborator calls in calls.
Return(p, e, calls) ==
    /\ pc' = [pc EXCEPT ![p] = "returned"]
    /\ result' = [result EXCEPT ![p] = e]
    /\ stage' = [stage EXCEPT ![p] = IF e.kind = "nil" THEN "DONE" ELSE "FAILED"]
    /\ trace' = [trace EXCEPT ![p] = @ \o calls]

\* The invocation of p goes on at label next in workflow state st.
Goto(p, next, st, calls) ==
    /\ pc' = [pc EXCEPT ![p] = next]
    /\ stage' = [stage EXCEPT ![p] = st]
    /\ trace' = [trace EXCEPT ![p] = @ \o calls]
    /\ UNCHANGED result

(***************************************************************************)
(* installChaincode: the input is set, then the dialect chosen.            *)
(***************************************************************************)
\* installChaincode keeping the package file of the Input it finds when it
\* is called without one.
installChaincode_KeepsPackageFile(p, c) ==
    /\ pc[p] \in {"idle", "returned"}
    /\ Input' = IF Len(c.args) = 0 /\ Input # NilInput
                THEN [setInput(c) EXCEPT !.PackageFile = Input.PackageFile]
                ELSE setInput(c)
    /\ call' = [call EXCEPT ![p] = c]
    /\ repeat' = [repeat EXCEPT ![p] =
                      pc[p] = "returned" /\ result[p].kind = "nil" /\ call[p] = c]
    /\ loc' = [loc EXCEPT ![p] = NilLoc]
    /\ trace' = [trace EXCEPT ![p] = <<>>]
    /\ result' = [result EXCEPT ![p] = Pending]
    /\ stage' = [stage EXCEPT ![p] = "START"]
    /\ pc' = [pc EXCEPT ![p] = "dispatch"]
    /\ contacted' = [contacted EXCEPT ![p] = <<>>]
    /\ prevFile' = IF Input = NilInput THEN Empty ELSE Input.PackageFile
    /\ UNCHANGED EndorserClients

installChaincode(p, c) ==
    /\ pc[p] \in {"idle", "returned"}
    /\ Input' = setInput(c)
    /\ call' = [call EXCEPT ![p] = c]
    /\ repeat' = [repeat EXCEPT ![p] =
                      pc[p] = "returned" /\ result[p].kind = "nil" /\ call[p] = c]
    /\ loc' = [loc EXCEPT ![p] = NilLoc]
    /\ trace' = [trace EXCEPT ![p] = <<>>]
    /\ result' = [result EXCEPT ![p] = Pending]
    /\ stage' = [stage EXCEPT ![p] = "START"]
    /\ pc' = [pc EXCEPT ![p] = "dispatch"]
    /\ contacted' = [contacted EXCEPT ![p] = <<>>]
    /\ prevFile' = IF Input = NilInput THEN Empty ELSE Input.PackageFile
    /\ UNCHANGED EndorserClients

dispatch(p) ==
    /\ pc[p] = "dispatch"
    /\ Goto(p, IF Input.NewLifecycle THEN "install" ELSE "installLegacy", "START", <<>>)
    /\ UNCHANGED <<Input, call, loc, repeat, EndorserClients, contacted, prevFile>>

(***************************************************************************)
(* install: the _lifecycle dialect.                                        *)
(***************************************************************************)
installValidate(p) ==
    /\ pc[p] = "install"
    /\ IF validateInput(Input).kind # "nil"
       THEN Return(p, validateInput(Input), <<>>)
       ELSE Goto(p, "ReadFile", "VALIDATED", <<>>)
    /\ UNCHANGED <<Input, call, loc, repeat, EndorserClients, contacted, prevFile>>

\* Reader.ReadFile and the wrapping of its error (lines 140-143); reads is
\* what the reader can return.
installReadFileFrom(p, reads) ==
    /\ pc[p] = "ReadFile"
    /\ \E read \in reads :
          IF read.err
          THEN /\ Return(p, WithMessage("PackageUnreadable", CollabErr("ReadFile"),
                                       "error reading chaincode package at %s",
                                       <<Input.PackageFile>>),
                         <<Call("ReadFile", FALSE)>>)
               /\ UNCHANGED loc
          ELSE /\ Goto(p, "Serialize", "RESOLVED", <<Call("ReadFile", TRUE)>>)
               /\ loc' = [loc EXCEPT ![p].pkgBytes = read.bytes]
    /\ UNCHANGED <<Input, call, repeat, EndorserClients, contacted, prevFile>>

installReadFile(p) == installReadFileFrom(p, ReadOutcomes)

\* The error of Serialize is wrapped and the wrapped error dropped: the
\* function goes on with the bytes that came with the error.
installSerialize(p) ==
    /\ pc[p] = "Serialize"
    /\ \E ser \in SerializeOutcomes :
          /\ Goto(p, "createNewLifecycleInstallProposal", stage[p],
                  <<Call("Serialize", ~ser.err)>>)
          /\ loc' = [loc EXCEPT ![p].serializedSigner = ser.bytes]
    /\ UNCHANGED <<Input, call, repeat, EndorserClients, contacted, prevFile>>

installCreateProposal(p) ==
    /\ pc[p] = "createNewLifecycleInstallProposal"
    /\ \E cisOk \in BOOLEAN :
          LET r == createNewLifecycleInstallProposal(Input.Name, Input.Version,
                       loc[p].pkgBytes, loc[p].serializedSigner, cisOk)
          IN  IF r.err.kind # "nil"
              THEN Return(p, r.err, r.calls) /\ UNCHANGED loc
              ELSE /\ Goto(p, "GetSignedProposal", "BUILT", r.calls)
                   /\ loc' = [loc EXCEPT ![p].proposal = r.proposal]
    /\ UNCHANGED <<Input, call, repeat, EndorserClients, contacted, prevFile>>

(***************************************************************************)
(* installLegacy: the legacy lscc dialect.                                 *)
(***************************************************************************)
\* getLegacyChaincodePackageMessage (line 166); reads is what
\* ioutil.ReadFile can return.
installLegacyResolveFrom(p, reads) ==
    /\ pc[p] = "installLegacy"
    /\ \E read \in reads, existed \in BOOLEAN, built \in BuilderOutcomes :
          LET r == getLegacyChaincodePackageMessage(Input, read, existed, built)
              probed == \E k \in 1..Len(r.calls) :
                            r.calls[k].op = "ChaincodePackageExists"
              parsed == \E k \in 1..Len(r.calls) :
                            r.calls[k] = Call("GetCCPackage", TRUE)
              o == IF parsed THEN GetCCPackage(read.bytes).obj ELSE NilObject
          IN  IF r.err.kind # "nil"
              THEN /\ Return(p, r.err, r.calls)
                   /\ loc' = [loc EXCEPT ![p].ccPkgBytes = r.ccPkgBytes,
                                         ![p].existed = probed /\ existed,
                                         ![p].o = o]
              ELSE /\ Goto(p, "createLegacyInstallProposal", "RESOLVED", r.calls)
                   /\ loc' = [loc EXCEPT ![p].ccPkgBytes = r.ccPkgBytes,
                                         ![p].ccPkgMsg = r.msg,
                                         ![p].existed = probed /\ existed,
                                         ![p].o = o]
    /\ UNCHANGED <<Input, call, repeat, EndorserClients, contacted, prevFile>>

installLegacyResolve(p) == installLegacyResolveFrom(p, ReadOutcomes)

installLegacyCreateProposal(p) ==
    /\ pc[p] = "createLegacyInstallProposal"
    /\ \E ser \in SerializeOutcomes, propOk \in BOOLEAN :
          LET r == createLegacyInstallProposal(loc[p].ccPkgMsg, ser, propOk)
          IN  IF r.err.kind # "nil"
              THEN Return(p, r.err, r.calls) /\ UNCHANGED loc
              ELSE /\ Goto(p, "GetSignedProposal", "BUILT", r.calls)
                   /\ loc' = [loc EXCEPT ![p].proposal = r.proposal]
    /\ UNCHANGED <<Input, call, repeat, EndorserClients, contacted, prevFile>>

(***************************************************************************)
(* Both dialects: signing, submission, the check of the response.          *)
(***************************************************************************)
signProposal(p) ==
    /\ pc[p] = "GetSignedProposal"
    /\ \E signOk \in BOOLEAN :
          LET r == GetSignedProposal(loc[p].proposal, signOk)
          IN  IF r.err.kind # "nil"
              THEN Return(p, r.err, <<Call("Sign", FALSE)>>) /\ UNCHANGED loc
              ELSE /\ Goto(p, "submitInstallProposal", stage[p], <<Call("Sign", TRUE)>>)
                   /\ loc' = [loc EXCEPT ![p].signedProposal = r.signed]
    /\ UNCHANGED <<Input, call, repeat, EndorserClients, contacted, prevFile>>

\* processProposal calling the endorser again after a transport error.
processProposal_Retry(p) ==
    /\ pc[p] = "submitInstallProposal"
    /\ \E out \in EndorserOutcomes :
          /\ Goto(p, IF out.err THEN "submitInstallProposal" ELSE "checkResponse",
                  "SUBMITTED", <<Call("ProcessProposal", ~out.err)>>)
          /\ loc' = [loc EXCEPT ![p].callErr = out.err,
                                ![p].proposalResponse = out.resp]
    /\ contacted' = [contacted EXCEPT ![p] = Append(@, EndorserClients[0 + 1])]
    /\ UNCHANGED <<Input, call, repeat, EndorserClients, prevFile>>

\* EndorserClients[0].ProcessProposal: the first client, which the model
\* keeps at position 0 + 1 of the sequence; outs is what it can answer.
processProposalFrom(p, outs) ==
    /\ pc[p] = "submitInstallProposal"
    /\ \E out \in outs :
          /\ Goto(p, "checkResponse", "SUBMITTED", <<Call("ProcessProposal", ~out.err)>>)
          /\ loc' = [loc EXCEPT ![p].callErr = out.err,
                                ![p].proposalResponse = out.resp]
    /\ contacted' = [contacted EXCEPT ![p] = Append(@, EndorserClients[0 + 1])]
    /\ UNCHANGED <<Input, call, repeat, EndorserClients, prevFile>>

\* processProposal sending the proposal to every configured client and
\* keeping the answer of one of them.
processProposal_AllClients(p) ==
    /\ pc[p] = "submitInstallProposal"
    /\ \E out \in EndorserOutcomes :
          /\ Goto(p, "checkResponse", "SUBMITTED", <<Call("ProcessProposal", ~out.err)>>)
          /\ loc' = [loc EXCEPT ![p].callErr = out.err,
                                ![p].proposalResponse = out.resp]
    /\ contacted' = [contacted EXCEPT ![p] = @ \o EndorserClients]
    /\ UNCHANGED <<Input, call, repeat, EndorserClients, prevFile>>

processProposal(p) == processProposalFrom(p, EndorserOutcomes)

checkResponse(p) ==
    /\ pc[p] = "checkResponse"
    /\ LET r == checkProposalResponse(Input.NewLifecycle, loc[p].callErr,
                                      loc[p].proposalResponse)
       IN  Return(p, r.err, r.calls)
    /\ UNCHANGED <<Input, call, loc, repeat, EndorserClients, contacted, prevFile>>

Step(p) ==
    \/ \E c \in Calls : installChaincode(p, c)
    \/ dispatch(p)
    \/ installValidate(p)
    \/ installReadFile(p)
    \/ installSerialize(p)
    \/ installCreateProposal(p)
    \/ installLegacyResolve(p)
    \/ installLegacyCreateProposal(p)
    \/ signProposal(p)
    \/ processProposal(p)
    \/ checkResponse(p)

\* One caller invokes installChaincode again and again.
Next == Step(1)

Spec == Init /\ [][Next]_vars

(***************************************************************************)
(* The lifecycle builder on its own: install() from the reading of the     *)
(* package on, for every name, version and content of the file.            *)
(***************************************************************************)
InitBuilder ==
    /\ \E n \in Names, v \in Versions :
          LET c == [chaincodeName |-> n, chaincodeVersion |-> v,
                    chaincodePath |-> Empty, newLifecycle |-> TRUE,
                    args |-> <<pkgBin>>]
          IN  /\ Input = setInput(c)
              /\ call = [p \in Callers |-> IF p = 1 THEN c ELSE NoCall]
    /\ pc = [p \in Callers |-> IF p = 1 THEN "ReadFile" ELSE "idle"]
    /\ loc = [p \in Callers |-> NilLoc]
    /\ trace = [p \in Callers |-> <<>>]
    /\ result = [p \in Callers |-> Pending]
    /\ stage = [p \in Callers |-> IF p = 1 THEN "VALIDATED" ELSE "NONE"]
    /\ repeat = [p \in Callers |-> FALSE]
    /\ EndorserClients = Clients(1)
    /\ contacted = [p \in Callers |-> <<>>]
    /\ prevFile = Empty

NextBuilder ==
    \/ installReadFile(1)
    \/ installSerialize(1)
    \/ installCreateProposal(1)

SpecBuilder == InitBuilder /\ [][NextBuilder]_vars

(***************************************************************************)
(* Two goroutines on one Installer: each calls installChaincode once, a    *)
(* legacy or a lifecycle install of a package file, and their steps        *)
(* interleave.  Installer.Input is one field that both write and read.     *)
(***************************************************************************)
ConcCalls ==
    {[chaincodeName |-> mycc, chaincodeVersion |-> v10, chaincodePath |-> Empty,
      newLifecycle |-> FALSE, args |-> <<pkgBin>>],
     [chaincodeName |-> othercc, chaincodeVersion |-> v20, chaincodePath |-> Empty,
      newLifecycle |-> TRUE, args |-> <<pkgBin>>]}

\* The file is unreadable or holds the descriptor of mycc 1.0.
ConcReadOutcomes ==
    {[err |-> TRUE, bytes |-> Empty], [err |-> FALSE, bytes |-> CDSBytes(mycc, v10)]}

\* The endorser fails, answers nothing, rejects, or accepts with a payload
\* that is empty or cut short.
ConcEndorserOutcomes ==
    {[err |-> TRUE, resp |-> NilResponse],
     [err |-> FALSE, resp |-> NilResponse]}
    \cup
    {[err |-> FALSE,
      resp |-> [tag |-> "ProposalResponse",
                Response |-> [tag |-> "Response", Status |-> st,
                              Message |-> Empty, Payload |-> pl]]] :
        st \in StatusCodes, pl \in {Empty, <<10, 1>>}}

InitConc ==
    /\ Init
    /\ EndorserClients = Clients(1)

invoke(p) ==
    /\ pc[p] = "idle"
    /\ \E c \in ConcCalls : installChaincode(p, c)

NextConc ==
    \E p \in Callers :
        \/ invoke(p)
        \/ dispatch(p)
        \/ installValidate(p)
        \/ installReadFileFrom(p, ConcReadOutcomes)
        \/ installSerialize(p)
        \/ installCreateProposal(p)
        \/ installLegacyResolveFrom(p, ConcReadOutcomes)
        \/ installLegacyCreateProposal(p)
        \/ signProposal(p)
        \/ processProposalFrom(p, ConcEndorserOutcomes)
        \/ checkResponse(p)

SpecConc == InitConc /\ [][NextConc]_vars

(***************************************************************************)
(* The resolver of a package file on its own: getPackageFromFile from the  *)
(* answer of the codec on, and the check of the identity after it, for     *)
(* every given name and version and every object the codec can hand over:  *)
(* the package of the bytes, an object of another type, or nil.            *)
(***************************************************************************)
\* a message that is neither a deployment spec nor an envelope
OtherObject == [type |-> "Other"]

\* What ccpack.GetPackageObject can return for the bytes buf.
CodecAnswers(buf) ==
    {GetCCPackage(buf),
     [err |-> FALSE, obj |-> OtherObject],
     [err |-> FALSE, obj |-> NilObject]}

InitResolver ==
    /\ \E n \in Names, v \in Versions :
          LET c == [chaincodeName |-> n, chaincodeVersion |-> v,
                    chaincodePath |-> Empty, newLifecycle |-> FALSE,
                    args |-> <<pkgBin>>]
          IN  /\ Input = setInput(c)
              /\ call = [p \in Callers |-> IF p = 1 THEN c ELSE NoCall]
    /\ pc = [p \in Callers |-> IF p = 1 THEN "installLegacy" ELSE "idle"]
    /\ loc = [p \in Callers |-> NilLoc]
    /\ trace = [p \in Callers |-> <<>>]
    /\ result = [p \in Callers |-> Pending]
    /\ stage = [p \in Callers |-> IF p = 1 THEN "START" ELSE "NONE"]
    /\ repeat = [p \in Callers |-> FALSE]
    /\ EndorserClients = Clients(1)
    /\ contacted = [p \in Callers |-> <<>>]
    /\ prevFile = Empty

\* Lines 345-375 and 283-301 for a file that was read.
resolvePackage(p) ==
    /\ pc[p] = "installLegacy"
    /\ Input.PackageFile # Empty
    /\ \E read \in {x \in ReadOutcomes : ~x.err} :
          \E ccpack \in CodecAnswers(read.bytes) :
             LET r == packageMessageFromFile(Input, packageFromObject(read, ccpack))
             IN  IF r.err.kind # "nil"
                 THEN /\ Return(p, r.err, r.calls)
                      /\ loc' = [loc EXCEPT ![p].ccPkgBytes = r.ccPkgBytes,
                                            ![p].o = ccpack.obj]
                 ELSE /\ Goto(p, "createLegacyInstallProposal", "RESOLVED", r.calls)
                      /\ loc' = [loc EXCEPT ![p].ccPkgBytes = r.ccPkgBytes,
                                            ![p].ccPkgMsg = r.msg,
                                            ![p].o = ccpack.obj]
    /\ UNCHANGED <<Input, call, repeat, EndorserClients, contacted, prevFile>>

NextResolver == resolvePackage(1)

SpecResolver == InitResolver /\ [][NextResolver]_vars

(***************************************************************************)
(* One invocation run to its end: the caller invokes installChaincode      *)
(* once, and every call the invocation makes returns, so that a step of    *)
(* the invocation that can be taken is taken.                              *)
(***************************************************************************)
start(p) ==
    /\ pc[p] = "idle"
    /\ \E c \in Calls : installChaincode(p, c)

\* The steps of an invocation after its start.
Run(p) ==
    \/ dispatch(p)
    \/ installValidate(p)
    \/ installReadFile(p)
    \/ installSerialize(p)
    \/ installCreateProposal(p)
    \/ installLegacyResolve(p)
    \/ installLegacyCreateProposal(p)
    \/ signProposal(p)
    \/ processProposal(p)
    \/ checkResponse(p)

NextLive == start(1) \/ Run(1)

SpecLive == Init /\ [][NextLive]_vars /\ WF_vars(Run(1))

(***************************************************************************)
(* Vocabulary of the properties.                                           *)
(***************************************************************************)
\* How many times the invocation of p called collaborator op.
Count(p, op) == Cardinality({k \in 1..Len(trace[p]) : trace[p][k].op = op})

Called(p, op, ok) == \E k \in 1..Len(trace[p]) : trace[p][k] = Call(op, ok)

\* The package file the caller named, empty when none.
PackageFileOf(c) == IF c.args = <<>> THEN Empty ELSE c.args[1]

Lifecycle(p) == pc[p] # "idle" /\ call[p].newLifecycle
Legacy(p) == pc[p] # "idle" /\ ~call[p].newLifecycle
Returned(p) == pc[p] = "returned"

\* The descriptor that bytes hold, directly or in a signed envelope:
\* [err, cds], the cds with the embedded name and version.
EmbeddedOfEnvelope(env) ==
    IF env.err THEN NoCDS
    ELSE IF ExtractSignedCCDepSpec(env.env).err THEN NoCDS
    ELSE ParseCDS(ExtractSignedCCDepSpec(env.env).ChaincodeDeploymentSpec)

EmbeddedOf(b, cds) == IF ~cds.err THEN cds ELSE EmbeddedOfEnvelope(ParseEnvelope(b))

Embedded(b) == EmbeddedOf(b, ParseCDS(b))

NameDiffers(c, cds) == c.chaincodeName # Empty /\ c.chaincodeName # cds.Name
VersionDiffers(c, cds) == c.chaincodeVersion # Empty /\ c.chaincodeVersion # cds.Version

\* The bytes hold a descriptor and no given part of the identity of call c
\* differs from the embedded one; e is Embedded of the bytes.
IdentityMatches(c, e) ==
    ~e.err /\ ~NameDiffers(c, e.cds) /\ ~VersionDiffers(c, e.cds)

\* The bytes hold a descriptor and a given part of the identity differs.
IdentityDiffers(c, e) ==
    ~e.err /\ (NameDiffers(c, e.cds) \/ VersionDiffers(c, e.cds))

\* A legacy invocation with a package file has read the file and is past
\* getLegacyChaincodePackageMessage.
LegacyFileRead(p) ==
    /\ Legacy(p)
    /\ PackageFileOf(call[p]) # Empty
    /\ pc[p] \notin {"dispatch", "installLegacy"}
    /\ Called(p, "ReadFile", TRUE)

(***************************************************************************)
(* Properties.                                                             *)
(***************************************************************************)
C1For(p, e) ==
    (LegacyFileRead(p) /\ IdentityDiffers(call[p], e))
    => /\ Returned(p)
       /\ result[p].kind = "IdentityMismatch"
       /\ result[p].vals =
              IF NameDiffers(call[p], e.cds)
              THEN <<call[p].chaincodeName, e.cds.Name>>
              ELSE <<call[p].chaincodeVersion, e.cds.Version>>
       /\ loc[p].ccPkgMsg.type = "nil"
       /\ Input.Name = call[p].chaincodeName
       /\ Input.Version = call[p].chaincodeVersion
       /\ Count(p, "ProcessProposal") = 0

\* C1: in the legacy dialect with a package file whose descriptor parses, a
\* given name or version that differs from the embedded one makes the
\* invocation fail with IdentityMismatch, reporting the given and the
\* embedded value as they are, with no message resolved and no call of
\* ProcessProposal.
C1_IdentityMismatchFails ==
    \A p \in Callers : C1For(p, Embedded(loc[p].ccPkgBytes))

C1WitnessFor(p, e) ==
    /\ LegacyFileRead(p)
    /\ ~e.err
    /\ ~NameDiffers(call[p], e.cds)
    /\ VersionDiffers(call[p], e.cds)
    /\ result[p].kind = "IdentityMismatch"

\* A legacy invocation failed on a version that differs from the package's.
C1_Witness ==
    \E p \in Callers : C1WitnessFor(p, Embedded(loc[p].ccPkgBytes))

\* C2 as stated: in either dialect, with a package file, a request is
\* submitted only if the content of the file holds an identity and every
\* given part of the identity equals the embedded one.
C2_SubmittedOnlyIfIdentityMatches_AnyDialect ==
    \A p \in Callers :
        (pc[p] # "idle" /\ PackageFileOf(call[p]) # Empty
         /\ Count(p, "ProcessProposal") > 0)
        => IdentityMatches(call[p],
               Embedded(IF call[p].newLifecycle THEN loc[p].pkgBytes
                                                ELSE loc[p].ccPkgBytes))

\* C2 amended: in the legacy dialect, with a package file, a proposal is
\* built, signed or submitted only if the content of the file holds an
\* identity and every given part of the identity equals the embedded one;
\* otherwise the invocation has failed in resolution.
C2_LegacySubmittedOnlyIfIdentityMatches ==
    \A p \in Callers :
        (Legacy(p) /\ PackageFileOf(call[p]) # Empty)
        => /\ (loc[p].proposal.tag # "nil" \/ Count(p, "Sign") > 0
               \/ Count(p, "ProcessProposal") > 0)
              => IdentityMatches(call[p], Embedded(loc[p].ccPkgBytes))
           /\ (Returned(p) /\ Count(p, "ProcessProposal") = 0
               /\ Count(p, "Serialize") = 0)
              => result[p].kind \in {"PackageUnreadable", "InvalidPackage",
                                     "IdentityMismatch"}

\* A legacy invocation with a package file and a given name and version
\* submitted its request.
C2_Witness ==
    \E p \in Callers :
        /\ LegacyFileRead(p)
        /\ call[p].chaincodeName # Empty
        /\ call[p].chaincodeVersion # Empty
        /\ Count(p, "ProcessProposal") = 1

\* The input breaks a rule of the lifecycle dialect.
LifecycleInputInvalid(c) ==
    \/ PackageFileOf(c) = Empty
    \/ c.chaincodeName = Empty
    \/ c.chaincodeVersion = Empty
    \/ c.chaincodePath # Empty

\* C3: a lifecycle invocation whose input lacks the package file, the name
\* or the version, or sets the path, fails in validation with InvalidInput
\* and calls no collaborator at all.
C3_LifecycleInvalidInputFailsFirst ==
    \A p \in Callers :
        (Lifecycle(p) /\ LifecycleInputInvalid(call[p]))
        => /\ trace[p] = <<>>
           /\ pc[p] \in {"dispatch", "install", "returned"}
           /\ Returned(p) => (result[p].kind = "InvalidInput" /\ stage[p] = "FAILED")

\* A lifecycle invocation that is valid but for its path failed.
C3_Witness ==
    \E p \in Callers :
        /\ Lifecycle(p) /\ Returned(p)
        /\ PackageFileOf(call[p]) # Empty
        /\ call[p].chaincodeName # Empty
        /\ call[p].chaincodeVersion # Empty
        /\ call[p].chaincodePath # Empty
        /\ result[p].kind = "InvalidInput"

\* C4 as stated: once Signer.Serialize has failed, in either dialect, no
\* proposal is built, nothing is signed, the endorser is not called, and
\* the invocation returns IdentitySerializationFailed.
C4_SerializeFailureEndsInvocation ==
    \A p \in Callers :
        Called(p, "Serialize", FALSE)
        => /\ loc[p].proposal.tag = "nil"
           /\ Count(p, "CreateProposal") = 0
           /\ Count(p, "Sign") = 0
           /\ Count(p, "ProcessProposal") = 0
           /\ Returned(p) => result[p].kind = "IdentitySerializationFailed"

\* The endorser answered the invocation of p, without transport error,
\* with a response that has an inner Response.
WellFormedResponse(p) ==
    /\ Called(p, "ProcessProposal", TRUE)
    /\ loc[p].proposalResponse.tag # "nil"
    /\ loc[p].proposalResponse.Response.tag # "nil"

Verdict(p) == loc[p].proposalResponse.Response

Rejected(p) == WellFormedResponse(p) /\ Verdict(p).Status # Status_SUCCESS
Accepted(p) == WellFormedResponse(p) /\ Verdict(p).Status = Status_SUCCESS

\* C5: an invocation, first or repeated, that got a well-formed response
\* with a status other than success returns InstallRejected with that
\* status and that message, without unmarshaling the payload; one whose
\* call of ProcessProposal failed returns TransportFailed, a different
\* error with a different text.
C5_RejectionCarriesVerdict ==
    \A p \in Callers :
        /\ (Returned(p) /\ Rejected(p))
           => /\ result[p].kind = "InstallRejected"
              /\ result[p].vals = <<Verdict(p).Status, Verdict(p).Message>>
              /\ result[p].msg # "error endorsing chaincode install"
              /\ stage[p] = "FAILED"
              /\ Count(p, "Unmarshal") = 0
        /\ (Returned(p) /\ Called(p, "ProcessProposal", FALSE))
           => /\ result[p].kind = "TransportFailed"
              /\ result[p].msg = "error endorsing chaincode install"

\* A lifecycle install that succeeded was run again with the same input
\* and rejected with status 500 and message "bad request".
C5_Witness ==
    \E p \in Callers :
        /\ Lifecycle(p) /\ Returned(p) /\ repeat[p]
        /\ Rejected(p)
        /\ Verdict(p).Status = 500
        /\ Verdict(p).Message = badRequest
        /\ result[p].kind = "InstallRejected"

\* The payload unmarshals into an InstallChaincodeResult.
Decodes(payload) == ~UnmarshalInstallChaincodeResult(payload).err

\* C6: a lifecycle invocation that got a well-formed response with success
\* status returns ResultDecodeFailed and ends FAILED when the payload does
\* not unmarshal, and ends DONE when it does; a lifecycle invocation ends
\* DONE only after such a response whose payload unmarshals.
C6_LifecycleDecodeFailureFails ==
    \A p \in Callers :
        Lifecycle(p)
        => /\ (Returned(p) /\ Accepted(p))
              => IF Decodes(Verdict(p).Payload)
                 THEN result[p].kind = "nil" /\ stage[p] = "DONE"
                 ELSE result[p].kind = "ResultDecodeFailed" /\ stage[p] = "FAILED"
           /\ stage[p] = "DONE"
              => Accepted(p) /\ Decodes(Verdict(p).Payload)

\* A lifecycle invocation got success status with a payload that is cut
\* short and failed.
C6_Witness ==
    \E p \in Callers :
        /\ Lifecycle(p) /\ Returned(p) /\ Accepted(p)
        /\ Verdict(p).Payload = <<10, 1>>
        /\ result[p].kind = "ResultDecodeFailed"

\* The name and the version of call c are those of the descriptor e holds.
IdentityEquals(c, e) ==
    ~e.err /\ c.chaincodeName = e.cds.Name /\ c.chaincodeVersion = e.cds.Version

C7For(p, e, ccpack) ==
    (LegacyFileRead(p) /\ IdentityEquals(call[p], e))
    => /\ loc[p].ccPkgMsg = ccpack.obj
       /\ Called(p, "GetCCPackage", TRUE)
       /\ loc[p].proposal.tag # "nil" => loc[p].proposal.Payload = ccpack.obj
       /\ Returned(p) => result[p].kind \notin
              {"PackageUnreadable", "InvalidPackage", "IdentityMismatch",
               "MissingParameter", "AlreadyInstalled", "PackagingFailed"}
       /\ (Returned(p) /\ Called(p, "Sign", TRUE) /\ Accepted(p))
          => /\ result[p].kind = "nil"
             /\ stage[p] = "DONE"
             /\ Count(p, "ProcessProposal") = 1

\* C7: a legacy invocation with a package file whose embedded name and
\* version equal the given ones resolves to the package object of the file,
\* unchanged, and builds its proposal from it; if the proposal is then
\* signed and the endorser answers with success status, the endorser was
\* called once and the invocation ends DONE.
C7_LegacyMatchingPackageInstalls ==
    \A p \in Callers :
        C7For(p, Embedded(loc[p].ccPkgBytes), GetCCPackage(loc[p].ccPkgBytes))

C7WitnessFor(p, e) ==
    /\ LegacyFileRead(p) /\ IdentityEquals(call[p], e)
    /\ loc[p].ccPkgMsg.type = "Envelope"
    /\ call[p].chaincodeName = mycc /\ call[p].chaincodeVersion = v10
    /\ Returned(p) /\ Accepted(p)
    /\ stage[p] = "DONE"

\* A legacy install of a signed package of mycc 1.0, named as such, is DONE.
C7_Witness ==
    \E p \in Callers : C7WitnessFor(p, Embedded(loc[p].ccPkgBytes))

C8For(p, decoded) ==
    /\ Len(loc[p].proposal.Args) = 2
    /\ loc[p].proposal.Args[1] = InstallChaincodeFn
    /\ ~decoded.err
    /\ decoded.msg = [Name |-> call[p].chaincodeName,
                      Version |-> call[p].chaincodeVersion,
                      ChaincodeInstallPackage |-> loc[p].pkgBytes]
    /\ Called(p, "ReadFile", TRUE)

\* C8: the proposal the lifecycle builder returns has the argument list
\* <<"InstallChaincode", payload>>, and the payload unmarshals into the
\* InstallChaincodeArgs with the given name, the given version and the
\* bytes the reader returned.
C8_LifecycleArgsRoundTrip ==
    \A p \in Callers :
        (call[p].newLifecycle /\ loc[p].proposal.tag # "nil")
        => C8For(p, UnmarshalInstallChaincodeArgs(loc[p].proposal.Args[2]))

\* A proposal was built for a name, no version and a file that is not
\* empty.
C8_Witness ==
    \E p \in Callers :
        /\ call[p].newLifecycle /\ loc[p].proposal.tag # "nil"
        /\ call[p].chaincodeName = othercc
        /\ call[p].chaincodeVersion = Empty
        /\ loc[p].pkgBytes # Empty

\* C9: an invocation calls ProcessProposal at most once and reads the
\* package file at most once; when the call fails the invocation returns
\* TransportFailed and ends FAILED with that call as its last.
C9_AtMostOneCallOneRead ==
    \A p \in Callers :
        /\ Count(p, "ProcessProposal") <= 1
        /\ Count(p, "ReadFile") <= 1
        /\ Called(p, "ProcessProposal", FALSE)
           => /\ pc[p] \in {"checkResponse", "returned"}
              /\ trace[p][Len(trace[p])] = Call("ProcessProposal", FALSE)
              /\ Returned(p) => (result[p].kind = "TransportFailed"
                                 /\ stage[p] = "FAILED")

\* An invocation read its package, called the endorser once, and returned
\* the transport error of that call.
C9_Witness ==
    \E p \in Callers :
        /\ Returned(p)
        /\ Count(p, "ReadFile") = 1
        /\ Count(p, "ProcessProposal") = 1
        /\ Called(p, "ProcessProposal", FALSE)
        /\ result[p].kind = "TransportFailed"

\* The calls whose failure is a guard failure of the workflow.
GuardOps ==
    {"ReadFile", "GetCCPackage", "ExtractSignedCCDepSpec",
     "GetChaincodeDeploymentSpec", "ChaincodePackageExists", "getChaincodeSpec",
     "getChaincodeDeploymentSpec", "Serialize", "Marshal", "CreateProposal", "Sign"}

\* Where in the trace of p the first call of op is, 0 when there is none.
IndexOf(p, op) ==
    IF Count(p, op) = 0 THEN 0
    ELSE CHOOSE k \in 1..Len(trace[p]) :
             /\ trace[p][k].op = op
             /\ \A j \in 1..(k - 1) : trace[p][j].op # op

\* C10 as stated: the endorser is called only after resolution, the
\* serialization of the creator, the construction of the proposal and the
\* signing have succeeded, in that order; a guard that fails is the last
\* call of the invocation, which then ends FAILED; an invocation ends DONE
\* only after one call of the endorser answered with success status.
C10_ForwardOnlyWorkflow ==
    \A p \in Callers :
        /\ Count(p, "ProcessProposal") > 0
           => /\ \A k \in 1..Len(trace[p]) :
                    trace[p][k].op \in GuardOps => trace[p][k].ok
              /\ 0 < IndexOf(p, "Serialize")
              /\ IndexOf(p, "Serialize") < IndexOf(p, "CreateProposal")
              /\ IndexOf(p, "CreateProposal") < IndexOf(p, "Sign")
              /\ IndexOf(p, "Sign") < IndexOf(p, "ProcessProposal")
              /\ stage[p] \in {"SUBMITTED", "DONE", "FAILED"}
        /\ \A k \in 1..Len(trace[p]) :
               (trace[p][k].op \in GuardOps /\ ~trace[p][k].ok)
               => /\ k = Len(trace[p])
                  /\ Returned(p)
                  /\ stage[p] = "FAILED"
        /\ stage[p] = "DONE"
           => /\ Count(p, "ProcessProposal") = 1
              /\ Accepted(p)

\* The labels of install() and of installLegacy() before the common part.
LifecycleLabels == {"install", "ReadFile", "Serialize", "createNewLifecycleInstallProposal"}
LegacyLabels == {"installLegacy", "createLegacyInstallProposal"}

\* What the invocation of p returns, run alone, once the endorser answered.
SoloVerdict(p) ==
    checkProposalResponse(call[p].newLifecycle, loc[p].callErr,
                          loc[p].proposalResponse).err

\* C11 as stated: when invocations interleave on one Installer, each one
\* in progress finds its own Input in the Installer, runs the code of its
\* own dialect, and returns what it would return when run alone with the
\* same arguments and the same answers of the collaborators: the result of
\* the validation of its own input when it called no collaborator, the
\* interpretation of the response in its own dialect when the endorser
\* answered.
C11_InvocationsIsolated ==
    \A p \in Callers :
        /\ pc[p] \notin {"idle", "returned"} => Input = setInput(call[p])
        /\ pc[p] \in LifecycleLabels => call[p].newLifecycle
        /\ pc[p] \in LegacyLabels => ~call[p].newLifecycle
        /\ (Returned(p) /\ call[p].newLifecycle /\ trace[p] = <<>>)
           => result[p] = validateInput(setInput(call[p]))
        /\ (Returned(p) /\ Count(p, "ProcessProposal") > 0)
           => result[p] = SoloVerdict(p)

\* The endorser answered the invocation of p without transport error.
Answered(p) == Called(p, "ProcessProposal", TRUE)

MissingResponse(p) == Answered(p) /\ loc[p].proposalResponse.tag = "nil"

MissingInner(p) ==
    /\ Answered(p)
    /\ loc[p].proposalResponse.tag # "nil"
    /\ loc[p].proposalResponse.Response.tag = "nil"

\* C12: in both dialects, an invocation whose call of the endorser returned
\* no error but no response, or a response without inner Response, returns
\* MalformedResponse and ends FAILED without unmarshaling anything; the
\* transport error is looked at first (it wins even when a response came
\* with it), then the response, then its inner Response, then the status:
\* MalformedResponse is returned for nothing else, and a rejection or an
\* acceptance only for a response that has its inner Response.
C12_MissingResponseIsMalformed ==
    \A p \in Callers :
        Returned(p)
        => /\ MissingResponse(p)
              => /\ result[p] = Err("MalformedResponse",
                                    "error during install: received nil proposal response",
                                    <<>>)
                 /\ stage[p] = "FAILED"
                 /\ Count(p, "Unmarshal") = 0
           /\ MissingInner(p)
              => /\ result[p] =
                        Err("MalformedResponse",
                            "error during install: received proposal response with nil response",
                            <<>>)
                 /\ stage[p] = "FAILED"
                 /\ Count(p, "Unmarshal") = 0
           /\ Called(p, "ProcessProposal", FALSE) => result[p].kind = "TransportFailed"
           /\ result[p].kind = "MalformedResponse"
              => (MissingResponse(p) \/ MissingInner(p))
           /\ (result[p].kind \in {"InstallRejected", "ResultDecodeFailed"}
               \/ (result[p].kind = "nil" /\ Count(p, "ProcessProposal") > 0))
              => WellFormedResponse(p)

\* A legacy invocation got a response without inner Response and failed
\* with MalformedResponse.
C12_Witness ==
    \E p \in Callers :
        /\ Legacy(p) /\ Returned(p)
        /\ MissingInner(p)
        /\ result[p].kind = "MalformedResponse"

\* A legacy invocation without package file is past
\* getLegacyChaincodePackageMessage.
LegacyNoFileResolved(p) ==
    /\ Legacy(p)
    /\ PackageFileOf(call[p]) = Empty
    /\ pc[p] \notin {"dispatch", "installLegacy"}

\* A parameter that the synthesis of a package needs has the default value.
ParameterMissing(c) ==
    \/ c.chaincodeName = UndefinedParamValue
    \/ c.chaincodeVersion = UndefinedParamValue
    \/ c.chaincodePath = UndefinedParamValue

\* C13: a legacy invocation without package file that lacks the name, the
\* version or the path returns MissingParameter having called no
\* collaborator at all; one that has the three calls the existence probe
\* first and, when the probe reports the package present, returns
\* AlreadyInstalled for that name and version with the probe as its only
\* call: no builder, no Signer, no endorser.
C13_LegacySynthesisPreconditions ==
    \A p \in Callers :
        LegacyNoFileResolved(p)
        => IF ParameterMissing(call[p])
           THEN /\ Returned(p)
                /\ result[p].kind = "MissingParameter"
                /\ stage[p] = "FAILED"
                /\ trace[p] = <<>>
                /\ contacted[p] = <<>>
           ELSE /\ trace[p][1] = Call("ChaincodePackageExists", TRUE)
                /\ Count(p, "ChaincodePackageExists") = 1
                /\ Count(p, "ReadFile") = 0
                /\ loc[p].existed
                   => /\ Returned(p)
                      /\ result[p] = Err("AlreadyInstalled",
                                         "chaincode %s:%s already exists",
                                         <<call[p].chaincodeName,
                                           call[p].chaincodeVersion>>)
                      /\ stage[p] = "FAILED"
                      /\ trace[p] = <<Call("ChaincodePackageExists", TRUE)>>
                      /\ loc[p].ccPkgMsg.type = "nil"
                      /\ contacted[p] = <<>>
                /\ result[p].kind = "AlreadyInstalled" => loc[p].existed

\* A legacy invocation for mycc 1.0 from source found the package present.
C13_Witness ==
    \E p \in Callers :
        /\ LegacyNoFileResolved(p)
        /\ call[p].chaincodeName = mycc
        /\ call[p].chaincodeVersion = v10
        /\ call[p].chaincodePath = srcPath
        /\ loc[p].existed
        /\ result[p].kind = "AlreadyInstalled"

\* A legacy invocation with a package file is past
\* getLegacyChaincodePackageMessage.
LegacyFileResolved(p) ==
    /\ Legacy(p)
    /\ PackageFileOf(call[p]) # Empty
    /\ pc[p] \notin {"dispatch", "installLegacy"}

\* What ioutil.ReadFile returned to the invocation of p.
ReadOf(p) == [err |-> ~Called(p, "ReadFile", TRUE), bytes |-> loc[p].ccPkgBytes]

\* The input of call c with no path.
WithoutPath(c) == [setInput(c) EXCEPT !.Path = Empty]

\* The first n calls of the invocation of p.
TracePrefix(p, n) == [k \in 1..n |-> trace[p][k]]

C14For(p, r) ==
    /\ Len(trace[p]) >= Len(r.calls)
    /\ TracePrefix(p, Len(r.calls)) = r.calls
    /\ loc[p].ccPkgMsg = r.msg
    /\ r.err.kind # "nil" => (Returned(p) /\ result[p] = r.err)
    /\ r.err.kind = "nil" => Len(trace[p]) > Len(r.calls) \/ ~Returned(p)
    /\ Count(p, "ChaincodePackageExists") = 0
    /\ Count(p, "getChaincodeSpec") = 0
    /\ Count(p, "getChaincodeDeploymentSpec") = 0
    /\ ~loc[p].existed

\* C14: a legacy invocation with a package file resolves, whatever its
\* path, as the same invocation without path resolves on the same content
\* of the file: the same calls, the same message, the same error; it calls
\* neither the existence probe nor the builder.
C14_PackageFileTakesPrecedence ==
    \A p \in Callers :
        LegacyFileResolved(p)
        => C14For(p, getLegacyChaincodePackageMessage(WithoutPath(call[p]), ReadOf(p),
                                                      FALSE, "ok"))

\* A legacy invocation with a package file and a path resolved the package
\* of the file.
C14_Witness ==
    \E p \in Callers :
        /\ LegacyFileResolved(p)
        /\ call[p].chaincodePath = srcPath
        /\ call[p].chaincodeName = mycc
        /\ loc[p].ccPkgMsg.type = "ChaincodeDeploymentSpec"
        /\ Count(p, "ProcessProposal") = 1

\* The deployment spec of a signed deployment spec: [err, cds].
UnwrapSigned(extracted) ==
    IF extracted.err THEN NoCDS
    ELSE GetChaincodeDeploymentSpec(extracted.ChaincodeDeploymentSpec)

\* The descriptor of a package object: the object itself when it is a
\* deployment spec, the unwrapped one when it is an envelope.
UnwrappedOf(o) ==
    IF o.type = "ChaincodeDeploymentSpec" THEN [err |-> FALSE, cds |-> o]
    ELSE IF o.type = "Envelope" THEN UnwrapSigned(ExtractSignedCCDepSpec(o))
    ELSE NoCDS

\* The codec handed a package object over to the legacy invocation of p.
PackageParsed(p) ==
    /\ LegacyFileResolved(p)
    /\ Called(p, "GetCCPackage", TRUE)

C15For(p, o, u) ==
    /\ o.type \notin {"ChaincodeDeploymentSpec", "Envelope"}
       => /\ Returned(p)
          /\ result[p] = Err("InvalidPackage",
                             "error extracting valid chaincode package", <<>>)
          /\ trace[p] = <<Call("ReadFile", TRUE), Call("GetCCPackage", TRUE)>>
    /\ o.type = "ChaincodeDeploymentSpec"
       => /\ Count(p, "ExtractSignedCCDepSpec") = 0
          /\ Count(p, "GetChaincodeDeploymentSpec") = 0
    /\ o.type = "Envelope" => Count(p, "ExtractSignedCCDepSpec") = 1
    /\ u.err
       => /\ Returned(p)
          /\ result[p].kind = "InvalidPackage"
          /\ stage[p] = "FAILED"
          /\ loc[p].ccPkgMsg.type = "nil"
    /\ ~u.err
       => IF NameDiffers(call[p], u.cds)
          THEN result[p] = Err("IdentityMismatch",
                               "chaincode name %s does not match name %s in package",
                               <<call[p].chaincodeName, u.cds.Name>>)
          ELSE IF VersionDiffers(call[p], u.cds)
          THEN result[p] = Err("IdentityMismatch",
                               "chaincode version %s does not match version %s in packages",
                               <<call[p].chaincodeVersion, u.cds.Version>>)
          ELSE /\ loc[p].ccPkgMsg = o
               /\ result[p].kind \notin {"InvalidPackage", "IdentityMismatch"}
    /\ loc[p].ccPkgMsg.type # "nil" => loc[p].ccPkgMsg = o

\* C15: once the codec handed over a package object, an object that is
\* neither a deployment spec nor an envelope, nil included, fails the
\* invocation with InvalidPackage without any attempt to unwrap it; a
\* deployment spec is taken as it is, without an attempt to unwrap; an
\* envelope is unwrapped, and fails the invocation with InvalidPackage when
\* that fails; the identity compared with the given one is that of the
\* unwrapped descriptor, and the message resolved is the object the codec
\* handed over, the envelope itself for an envelope.
C15_ResolverFailsClosed ==
    \A p \in Callers :
        PackageParsed(p) => C15For(p, loc[p].o, UnwrappedOf(loc[p].o))

\* The codec handed over an object of another type and the invocation
\* failed with InvalidPackage.
C15_Witness ==
    \E p \in Callers :
        /\ PackageParsed(p)
        /\ loc[p].o = OtherObject
        /\ result[p].kind = "InvalidPackage"
        /\ loc[p].ccPkgMsg.type = "nil"

\* C16: a legacy invocation never unmarshals the payload of the response:
\* one that got a well-formed response with success status returns nil and
\* ends DONE whatever the payload holds; the payload is unmarshaled, once,
\* only by a lifecycle invocation that got a well-formed response with
\* success status.
C16_LegacyPayloadNeverDecoded ==
    \A p \in Callers :
        /\ Legacy(p) => Count(p, "Unmarshal") = 0
        /\ (Legacy(p) /\ Returned(p) /\ Accepted(p))
           => /\ result[p] = NoErr
              /\ stage[p] = "DONE"
        /\ Count(p, "Unmarshal") > 0
           => /\ Lifecycle(p)
              /\ Accepted(p)
              /\ Count(p, "Unmarshal") = 1
              /\ Returned(p)
        /\ (Lifecycle(p) /\ Returned(p) /\ Accepted(p)) => Count(p, "Unmarshal") = 1

\* A legacy install ended DONE on a success response whose payload does not
\* unmarshal into an InstallChaincodeResult.
C16_Witness ==
    \E p \in Callers :
        /\ Legacy(p) /\ Returned(p) /\ Accepted(p)
        /\ ~Decodes(Verdict(p).Payload)
        /\ stage[p] = "DONE"

\* The invocation of p was called without package file.
NoFileGiven(p) == pc[p] # "idle" /\ PackageFileOf(call[p]) = Empty

\* C17: with one caller invoking installChaincode again and again, the
\* Input of the Installer is, from the start of an invocation on, the
\* record built from the arguments and flag values of that invocation,
\* whatever an earlier invocation left there; an invocation called without
\* package file reads no file and parses no package, and fails in its
\* validation (lifecycle) or goes the way of the synthesis (legacy) as its
\* own arguments say.
C17_NoStateAcrossInvocations ==
    \A p \in Callers :
        /\ pc[p] # "idle" => Input = setInput(call[p])
        /\ NoFileGiven(p)
           => /\ Input.PackageFile = Empty
              /\ Count(p, "ReadFile") = 0
              /\ Count(p, "GetCCPackage") = 0
              /\ loc[p].pkgBytes = Empty
              /\ loc[p].ccPkgBytes = Empty
              /\ (Returned(p) /\ call[p].newLifecycle)
                 => result[p] = Err("InvalidInput",
                                    "chaincode install package must be provided", <<>>)
              /\ (Returned(p) /\ ~call[p].newLifecycle /\ ParameterMissing(call[p]))
                 => result[p].kind = "MissingParameter"
              /\ (~call[p].newLifecycle /\ ~ParameterMissing(call[p])
                  /\ pc[p] \notin {"dispatch", "installLegacy"})
                 => Count(p, "ChaincodePackageExists") = 1

\* After an invocation with a package file, a legacy invocation without
\* one synthesized its package and installed it.
C17_Witness ==
    \E p \in Callers :
        /\ NoFileGiven(p)
        /\ prevFile = pkgBin
        /\ ~call[p].newLifecycle
        /\ Count(p, "getChaincodeDeploymentSpec") = 1
        /\ stage[p] = "DONE"

\* The invocation of p is between its start and its return.
Running(p) == pc[p] \notin {"idle", "returned"}

\* A call of the invocation of p failed.
FailedCall(p, k) == ~trace[p][k].ok

\* The state of p is one of the two ends, entered at the return, DONE with
\* the nil error and FAILED with an error; a call that failed is the last
\* call of the invocation, which returns an error.
C18_FailuresEnd(p) ==
    /\ Returned(p) <=> stage[p] \in {"DONE", "FAILED"}
    /\ Returned(p) => /\ result[p] # Pending
                      /\ stage[p] = "DONE" <=> result[p].kind = "nil"
    /\ \A k \in 1..Len(trace[p]) :
           FailedCall(p, k)
           => /\ k = Len(trace[p])
              /\ pc[p] \in {"checkResponse", "returned"}
              /\ Returned(p) => (result[p].kind # "nil" /\ stage[p] = "FAILED")

\* An invocation that returned makes no call and changes neither its
\* result nor its state, until the caller starts the next one.
C18_EndsStay(p) ==
    (pc[p] = "returned" /\ pc'[p] = "returned")
    => UNCHANGED <<trace[p], contacted[p], result[p], stage[p]>>

\* C18 as stated: every invocation whose calls all return comes to its
\* return, in exactly one of DONE and FAILED; the two are ends: no call
\* is made after either; and every failure of a call is returned to the
\* caller as an error, none is recovered from or dropped.
C18_TerminatesAndSurfacesFailures ==
    /\ \A p \in Callers : Running(p) ~> Returned(p)
    /\ [](\A p \in Callers : C18_FailuresEnd(p))
    /\ [][\A p \in Callers : C18_EndsStay(p)]_vars

\* The invocation of p is past its call of ProcessProposal.
Submitted(p) == pc[p] = "checkResponse" \/ (Returned(p) /\ Count(p, "ProcessProposal") > 0)

\* C19: whatever the number of endorser clients of the Installer, an
\* invocation calls no client before its submission and, from its
\* submission on, has called the first client, index 0, once and no other
\* client, whatever that client returned; the list of clients is left as
\* it was configured.
C19_OnlyFirstClientContacted ==
    /\ EndorserClients \in {Clients(n) : n \in 1..MaxClients}
    /\ \A p \in Callers :
          /\ Len(contacted[p]) = Count(p, "ProcessProposal")
          /\ \A k \in 1..Len(contacted[p]) : contacted[p][k] = 0
          /\ IF Submitted(p)
             THEN contacted[p] = <<0>>
             ELSE contacted[p] = <<>>

\* With two clients configured, an invocation whose call of the first
\* client failed returned without calling the second.
C19_Witness ==
    \E p \in Callers :
        /\ Len(EndorserClients) = 2
        /\ Returned(p)
        /\ Called(p, "ProcessProposal", FALSE)
        /\ contacted[p] = <<0>>

====
